---- MODULE Spec2Model ----
(***************************************************************************)
(* Model of the collector process supervisor of the YouTube live chat      *)
(* backend (services/process_service.py): the module-level table           *)
(* collector_processes, the handlers start_collector_process,              *)
(* stop_collector_process and get_running_processes, and the environment   *)
(* they act on (worker processes, psutil, the chat log directory); the     *)
(* data path: the write loop of the worker (collector.py), the             *)
(* MessageWriterService, and the log and import endpoints of main.py.      *)
(***************************************************************************)
EXTENDS Integers, Sequences, FiniteSets, TLC

\* ------------------------------------------------------------------ bounds
MaxPid == 2          \* worker processes spawned in one run of the model
MaxFiles == 2        \* log files created in one run of the data path
MaxRows == 2         \* data rows in the logs, documents in one collection of a worker

\* ------------------------------------------------------- program constants
GracefulWait == 5    \* p.wait(timeout=5) after SIGINT
KillWait == 2        \* p.wait(timeout=2) after kill()

Streams == {"s1", "s2"}
Threads == {"t1", "t2"}
Pids == 1..MaxPid
NoPid == 0

\* Objects of the interpreter heap that hold a dict of video_id -> pid.
TableObj == 1        \* the module-level dict collector_processes
SnapObj == 2         \* the dict most recently built by get_running_processes
ObjIds == {TableObj, SnapObj}
NoRef == 0

EmptyDict == [s \in Streams |-> NoPid]

VARIABLES
    heap,       \* ObjIds -> dict (a dict maps a stream to a pid, NoPid = no key)
    snapRef,    \* the object the last get_running_processes call returned
    proc,       \* pid -> [state, stream]: the OS processes spawned by start
    signals,    \* the signals delivered since the most recent request began,
                \* in order: [pid, sig]
    files,      \* the chat log directory: set of [stream, stamp, ctime,
                \* birth, rows]
    call,       \* thread -> the handler call in progress on that thread
    ret,        \* the response of the most recent request, NoRet while one runs
    threaded,   \* TRUE when request handlers of different threads interleave
    store,      \* the database yt_live_chat: collection name -> documents
    collection_datetimes,   \* main.py line 49: stream -> datetime suffix
    writers,    \* the write loops that are running: [file, kind]
    out,        \* the outcome of the most recent data operation, NoOut once
                \* the environment has moved on
    posix       \* TRUE where os.path.getctime is the time of the last change

dataVars == <<store, collection_datetimes, writers, out, posix>>

vars == <<heap, snapRef, proc, signals, files, call, ret, threaded, dataVars>>

\* The module-level table (process_service.py line 10).
collector_processes == heap[TableObj]

\* A handler call in progress: where the handler is (pc), its arguments and
\* locals (stream, pid), the table when it began (pre), what the environment
\* answered so far (path) and the time spent in the current wait (waited).
Call(pc, op, s, p, pre, path, waited) ==
    [pc |-> pc, op |-> op, stream |-> s, pid |-> p, pre |-> pre,
     path |-> path, waited |-> waited]

Idle == Call("idle", "none", "s1", NoPid, EmptyDict, <<>>, 0)

\* The response of a handler: the HTTP status code it maps to (200 for a
\* returned dict, the status_code of the HTTPException otherwise), the
\* "status" field of a returned dict, and the returned pid and filename.
NullName == <<>>

Ret(op, s, code, status, p, filename, seen, c) ==
    [op |-> op, stream |-> s, code |-> code, status |-> status, pid |-> p,
     filename |-> filename, seen |-> seen, pre |-> c.pre, path |-> c.path]

NoRet == Ret("none", "s1", 0, "none", NoPid, NullName, {}, Idle)

\* ------------------------------------------------------ data path values
\* Python's None.
None == "<None>"

\* What the feed delivers for a chat event: c.datetime, c.author.name,
\* c.message and amountString (None unless the message is a super chat).
Datetimes == {"2023-01-01 10:00:00", "soon"}
Authors == {"UserA"}
Texts == {"Msg1"}
Amounts == {None, "$2"}
Events == {ev \in [datetime : Datetimes, author : Authors, message : Texts,
                    amountString : Amounts] :
              ev.datetime = "soon" => ev.amountString = None}

\* utils.py line 21, collector.py line 28: the header row of a log.
Header == <<"datetime", "author", "message", "superChat">>

\* The name of a collection of the database: messages_{video_id} is
\* <<"messages", s>>, messages_{video_id}_{dt} is <<"messages", s, dt>>.
MaxStamp == MaxPid + MaxFiles
CollNames == {<<"messages", s>> : s \in Streams}
             \cup {<<"messages", s, d>> : s \in Streams, d \in 1..MaxStamp}

EmptyStore == [n \in CollNames |-> <<>>]

\* The outcome of a data operation: the operation and its stream, the
\* HTTP status (0 for a call that is not a request), the returned count
\* and messages, the file it used and the collection it addressed with the
\* documents the collection held before.
Out(op, s, code, inserted, messages, file, coll, pre, input) ==
    [op |-> op, stream |-> s, code |-> code, inserted |-> inserted,
     messages |-> messages, file |-> file, coll |-> coll, pre |-> pre,
     input |-> input]

NoOut == Out("none", "s1", 0, 0, <<>>, <<>>, <<>>, <<>>, <<>>)

\* The data path before anything ran.
DataIdle ==
    /\ store = EmptyStore
    /\ collection_datetimes = [s \in Streams |-> 0]
    /\ writers = {}
    /\ out = NoOut

\* `video_id in d`
HasKey(d, s) == d[s] # NoPid

\* `d[video_id] = pid`
Put(d, s, p) == [d EXCEPT ![s] = p]

\* `if video_id in d: del d[video_id]`
Remove(d, s) == [d EXCEPT ![s] = NoPid]

Running(p) == proc[p].state \in {"spawned", "collecting"}

\* The pid the OS gives to the next spawned process (0 when the model's
\* supply of processes is used up).
NextPid ==
    IF \E p \in Pids : proc[p].state = "none"
    THEN CHOOSE p \in Pids : proc[p].state = "none"
                             /\ \A q \in Pids : proc[q].state = "none" => p <= q
    ELSE NoPid

\* A handler may begin on thread t when t is free and, unless request
\* handling is multi-threaded, no other handler is running.
CanBegin(t) ==
    /\ call[t].pc = "idle"
    /\ threaded \/ \A u \in Threads : call[u].pc = "idle"

Init ==
    /\ heap = [o \in ObjIds |-> EmptyDict]
    /\ snapRef = NoRef
    /\ proc = [p \in Pids |-> [state |-> "none", stream |-> "s1"]]
    /\ signals = <<>>
    /\ files = {}
    /\ call = [t \in Threads |-> Idle]
    /\ ret = NoRet
    /\ threaded = FALSE
    /\ DataIdle
    /\ posix = TRUE

\* The same program with request handlers running on a pool of threads.
InitThreads ==
    /\ heap = [o \in ObjIds |-> EmptyDict]
    /\ snapRef = NoRef
    /\ proc = [p \in Pids |-> [state |-> "none", stream |-> "s1"]]
    /\ signals = <<>>
    /\ files = {}
    /\ call = [t \in Threads |-> Idle]
    /\ ret = NoRet
    /\ threaded = TRUE
    /\ DataIdle
    /\ posix = TRUE

\* ----------------------------------------------------------------- start
\* Variant: start refuses a stream that already has an entry.
StartAdmits_rejecting(d, s) == ~HasKey(d, s)

\* lines 18-22: an existing entry only produces a warning; start goes on.
StartAdmits(d, s) == TRUE

\* lines 24-34: the entry point is looked up at the primary path, then at the
\* fallback path.
ScriptFound(primaryExists, altExists) == primaryExists \/ altExists

\* Variant: the entry is recorded whether or not the spawn succeeded.
TableAfterSpawn_eager(d, s, p, spawnOk) == Put(d, s, p)

\* lines 36-42: the table is written after Popen returned, inside the try.
TableAfterSpawn(d, s, p, spawnOk) == IF spawnOk THEN Put(d, s, p) ELSE d

FileName(f) == <<f.stream, f.stamp>>

\* line 52: the names with prefix chat_log_{video_id}_ and suffix .csv
MatchingFiles(dir, s) == {f \in dir : f.stream = s}

\* line 54: max(files, key=getctime)
LatestFile(fs) == CHOOSE f \in fs : \A g \in fs : g.ctime <= f.ctime

\* Variant: a failure to list the log directory fails start.
StartLookupResult_strict(dir, s, listOk) ==
    IF ~listOk
    THEN [code |-> 500, status |-> "error", filename |-> NullName]
    ELSE IF MatchingFiles(dir, s) # {}
    THEN [code |-> 200, status |-> "started",
          filename |-> FileName(LatestFile(MatchingFiles(dir, s)))]
    ELSE [code |-> 200, status |-> "started", filename |-> NullName]

\* lines 49-64: the log lookup after the spawn and the value start returns.
StartLookupResult(dir, s, listOk) ==
    IF listOk /\ MatchingFiles(dir, s) # {}
    THEN [code |-> 200, status |-> "started",
          filename |-> FileName(LatestFile(MatchingFiles(dir, s)))]
    ELSE [code |-> 200, status |-> "started", filename |-> NullName]

\* start_collector_process, lines 18-42: path check, spawn, table write.
StartSpawn(t, s, primaryExists, altExists, spawnOk) ==
    LET c == Call("lookup", "start", s, NextPid, collector_processes,
                  <<primaryExists, altExists, spawnOk>>, 0)
    IN
    /\ CanBegin(t)
    /\ spawnOk => NextPid # NoPid
    /\ IF ~StartAdmits(collector_processes, s)
          \/ ~ScriptFound(primaryExists, altExists)
       THEN /\ ret' = Ret("start", s, 500, "error", NoPid, NullName, {}, c)
            /\ UNCHANGED <<heap, proc, call>>
       ELSE /\ heap' = [heap EXCEPT ![TableObj] =
                            TableAfterSpawn(@, s, NextPid, spawnOk)]
            /\ IF spawnOk
               THEN /\ proc' = [proc EXCEPT ![NextPid] =
                                    [state |-> "spawned", stream |-> s]]
                    /\ call' = [call EXCEPT ![t] = c]
                    /\ ret' = NoRet
               ELSE /\ ret' = Ret("start", s, 500, "error", NoPid, NullName,
                                  {}, c)
                    /\ UNCHANGED <<proc, call>>
    /\ signals' = <<>>
    /\ UNCHANGED <<snapRef, files, threaded, dataVars>>

\* start_collector_process, lines 49-64: log lookup and return.
StartLookup(t, listOk) ==
    LET c == call[t]
        r == StartLookupResult(files, c.stream, listOk)
    IN
    /\ c.pc = "lookup"
    /\ ret' = Ret("start", c.stream, r.code, r.status, c.pid, r.filename,
                  IF listOk THEN MatchingFiles(files, c.stream) ELSE {},
                  [c EXCEPT !.path = Append(@, listOk)])
    /\ call' = [call EXCEPT ![t] = Idle]
    /\ UNCHANGED <<heap, snapRef, proc, signals, files, threaded, dataVars>>

\* ------------------------------------------------------------------ stop
\* What a handler does after one of its steps: go on at `next`, or finish
\* ("done") with a response, after deleting the stream's entry or not.
GoOn(next) == [next |-> next, code |-> 0, status |-> "none", remove |-> FALSE]
Finish(code, status, remove) ==
    [next |-> "done", code |-> code, status |-> status, remove |-> remove]

\* What psutil can answer when a signal is sent to pid p: a process that is
\* gone is either still visible (not reaped: the signal is accepted) or
\* reported absent (NoSuchProcess); any call may fail otherwise (AccessDenied).
SignalOutcomes(p) ==
    IF Running(p) THEN {"ok", "error"} ELSE {"ok", "absent", "error"}

\* What p.wait(timeout=bound) can answer after `waited` units.
WaitOutcomes(p, waited, bound) ==
    {"error"} \cup (IF Running(p)
                    THEN (IF waited = bound THEN {"timeout"} ELSE {})
                    ELSE {"exited", "absent"})

\* Variant: an untracked stream is answered with a plain "not running" dict.
OnUntracked_notRunning == Finish(200, "not running", FALSE)

\* lines 71-73: no entry for the stream (or a falsy pid).
OnUntracked == Finish(404, "error", FALSE)

\* Variant: a process found absent counts as a successful stop.
OnSignal_absentIsStopped(outcome) ==
    CASE outcome = "ok" -> GoOn("wait1")
      [] outcome = "absent" -> Finish(200, "stopped", TRUE)
      [] OTHER -> Finish(500, "error", FALSE)

\* lines 75-77 with the handlers of lines 85-91 and 111-114:
\* psutil.Process(pid) and p.send_signal(SIGINT).
OnSignal(outcome) ==
    CASE outcome = "ok" -> GoOn("wait1")
      [] outcome = "absent" -> Finish(404, "error", TRUE)
      [] OTHER -> Finish(500, "error", FALSE)

\* Variant: the entry is not deleted after a graceful exit.
OnFirstWait_keepsEntry(outcome) ==
    CASE outcome = "exited" -> Finish(200, "stopped", FALSE)
      [] outcome = "absent" -> Finish(404, "error", TRUE)
      [] outcome = "timeout" -> GoOn("kill")
      [] OTHER -> Finish(500, "error", FALSE)

\* lines 78-83 with the handlers of lines 85-94 and 111-114: p.wait(timeout=5).
OnFirstWait(outcome) ==
    CASE outcome = "exited" -> Finish(200, "stopped", TRUE)
      [] outcome = "absent" -> Finish(404, "error", TRUE)
      [] outcome = "timeout" -> GoOn("kill")
      [] OTHER -> Finish(500, "error", FALSE)

\* Variant: a failed kill cleans the entry up.
OnKill_errorRemoves(outcome) ==
    CASE outcome = "ok" -> GoOn("wait2")
      [] outcome = "absent" -> Finish(404, "error", TRUE)
      [] OTHER -> Finish(500, "error", TRUE)

\* Variant: a process that disappeared at the kill keeps its entry.
OnKill_absentKeeps(outcome) ==
    CASE outcome = "ok" -> GoOn("wait2")
      [] outcome = "absent" -> Finish(404, "error", FALSE)
      [] OTHER -> Finish(500, "error", FALSE)

\* line 96 with the handlers of lines 101-109: p.kill().
OnKill(outcome) ==
    CASE outcome = "ok" -> GoOn("wait2")
      [] outcome = "absent" -> Finish(404, "error", TRUE)
      [] OTHER -> Finish(500, "error", FALSE)

\* Variant: a forced stop is reported like a graceful one.
OnSecondWait_stopped(outcome) ==
    CASE outcome = "exited" -> Finish(200, "stopped", TRUE)
      [] outcome = "absent" -> Finish(404, "error", TRUE)
      [] OTHER -> Finish(500, "error", FALSE)

\* Variant: the entry is deleted whenever the forced path ends, as in a
\* `finally` clause.
OnSecondWait_alwaysRemoves(outcome) ==
    CASE outcome = "exited" -> Finish(200, "killed", TRUE)
      [] outcome = "absent" -> Finish(404, "error", TRUE)
      [] OTHER -> Finish(500, "error", TRUE)

\* Variant: a worker that survived the kill is killed again.
OnSecondWait_retries(outcome) ==
    CASE outcome = "exited" -> Finish(200, "killed", TRUE)
      [] outcome = "absent" -> Finish(404, "error", TRUE)
      [] outcome = "timeout" -> GoOn("kill")
      [] OTHER -> Finish(500, "error", FALSE)

\* lines 97-100 with the handlers of lines 101-109: p.wait(timeout=2); a
\* TimeoutExpired of this wait is caught by `except Exception as e_kill`.
OnSecondWait(outcome) ==
    CASE outcome = "exited" -> Finish(200, "killed", TRUE)
      [] outcome = "absent" -> Finish(404, "error", TRUE)
      [] OTHER -> Finish(500, "error", FALSE)

\* The effect of one step of stop on the table, the call and the response.
StopStep(t, c, outcome, r) ==
    LET c2 == [c EXCEPT !.path = Append(@, outcome)]
    IN
    IF r.next = "done"
    THEN /\ heap' = [heap EXCEPT ![TableObj] =
                         IF r.remove THEN Remove(@, c.stream) ELSE @]
         /\ ret' = Ret("stop", c.stream, r.code, r.status, c.pid, NullName,
                       {}, c2)
         /\ call' = [call EXCEPT ![t] = Idle]
    ELSE /\ call' = [call EXCEPT ![t] = [c2 EXCEPT !.pc = r.next,
                                                   !.waited = 0]]
         /\ ret' = NoRet
         /\ UNCHANGED heap

\* stop_collector_process, lines 71-77: table lookup, graceful signal.
StopBegin(t, s, outcome) ==
    LET pid == collector_processes[s]
        c == Call("begin", "stop", s, pid, collector_processes, <<>>, 0)
    IN
    /\ CanBegin(t)
    /\ IF pid = NoPid
       THEN /\ outcome = "untracked"
            /\ StopStep(t, c, outcome, OnUntracked)
            /\ signals' = <<>>
       ELSE /\ outcome \in SignalOutcomes(pid)
            /\ signals' = IF outcome = "ok"
                          THEN <<[pid |-> pid, sig |-> "SIGINT"]>>
                          ELSE <<>>
            /\ StopStep(t, c, outcome, OnSignal(outcome))
    /\ UNCHANGED <<snapRef, proc, files, threaded, dataVars>>

\* stop_collector_process, line 78: the wait after the graceful signal.
StopFirstWait(t, outcome) ==
    LET c == call[t] IN
    /\ c.pc = "wait1"
    /\ outcome \in WaitOutcomes(c.pid, c.waited, GracefulWait)
    /\ StopStep(t, c, outcome, OnFirstWait(outcome))
    /\ UNCHANGED <<snapRef, proc, signals, files, threaded, dataVars>>

\* stop_collector_process, line 96: the forced kill.
StopKill(t, outcome) ==
    LET c == call[t] IN
    /\ c.pc = "kill"
    /\ outcome \in SignalOutcomes(c.pid)
    /\ signals' = IF outcome = "ok"
                  THEN Append(signals, [pid |-> c.pid, sig |-> "SIGKILL"])
                  ELSE signals
    /\ StopStep(t, c, outcome, OnKill(outcome))
    /\ UNCHANGED <<snapRef, proc, files, threaded, dataVars>>

\* stop_collector_process, line 97: the wait after the kill.
StopSecondWait(t, outcome) ==
    LET c == call[t] IN
    /\ c.pc = "wait2"
    /\ outcome \in WaitOutcomes(c.pid, c.waited, KillWait)
    /\ StopStep(t, c, outcome, OnSecondWait(outcome))
    /\ UNCHANGED <<snapRef, proc, signals, files, threaded, dataVars>>

\* One unit of time passes while stop waits for a process that is running.
WaitTick(t) ==
    LET c == call[t] IN
    /\ c.pc \in {"wait1", "wait2"}
    /\ c.waited < (IF c.pc = "wait1" THEN GracefulWait ELSE KillWait)
    /\ Running(c.pid)
    /\ call' = [call EXCEPT ![t].waited = @ + 1]
    /\ UNCHANGED <<heap, snapRef, proc, signals, files, ret, threaded, dataVars>>

\* ------------------------------------------------------------------ list
\* Variant: the table itself is returned instead of a copy.
get_running_processes_alias(t) ==
    /\ CanBegin(t)
    /\ snapRef' = TableObj
    /\ ret' = Ret("list", "s1", 200, "none", NoPid, NullName, {},
                  [Idle EXCEPT !.pre = collector_processes])
    /\ signals' = <<>>
    /\ UNCHANGED <<heap, proc, files, call, threaded, dataVars>>

\* Variant: only the entries whose process is alive are returned.
get_running_processes_live(t) ==
    /\ CanBegin(t)
    /\ heap' = [heap EXCEPT ![SnapObj] =
                    [s \in Streams |->
                        IF HasKey(heap[TableObj], s)
                           /\ Running(heap[TableObj][s])
                        THEN heap[TableObj][s] ELSE NoPid]]
    /\ snapRef' = SnapObj
    /\ ret' = Ret("list", "s1", 200, "none", NoPid, NullName, {},
                  [Idle EXCEPT !.pre = collector_processes])
    /\ signals' = <<>>
    /\ UNCHANGED <<proc, files, call, threaded, dataVars>>

\* get_running_processes, lines 116-118: dict(collector_processes) builds a
\* new dict object with the entries of the table.
get_running_processes(t) ==
    /\ CanBegin(t)
    /\ heap' = [heap EXCEPT ![SnapObj] = heap[TableObj]]
    /\ snapRef' = SnapObj
    /\ ret' = Ret("list", "s1", 200, "none", NoPid, NullName, {},
                  [Idle EXCEPT !.pre = collector_processes])
    /\ signals' = <<>>
    /\ UNCHANGED <<proc, files, call, threaded, dataVars>>

\* The caller of get_running_processes changes the dict it was given: it
\* deletes a key.
CallerMutatesSnapshot(s) ==
    /\ snapRef # NoRef
    /\ HasKey(heap[snapRef], s)
    /\ heap' = [heap EXCEPT ![snapRef] = Remove(@, s)]
    /\ UNCHANGED <<snapRef, proc, signals, files, call, ret, threaded, dataVars>>

\* ---------------------------------------------------------------- worker
MaxOf(S) == CHOOSE x \in S : \A y \in S : y <= x

\* The clock second at which a log is created: that of the newest file or
\* the next one.
StampNow(dir, later) ==
    IF dir = {} THEN 1
    ELSE MaxOf({f.stamp : f \in dir}) + (IF later THEN 1 ELSE 0)

\* The time of the next change in the directory, later than all before.
TimeNow(dir) == IF dir = {} THEN 1 ELSE MaxOf({f.ctime : f \in dir}) + 1

\* The times of the files are only ever compared with each other
\* (max(..., key=os.path.getctime)), so each is kept as its rank among the
\* files of the directory.
Rank(x, S) == Cardinality({y \in S : y <= x})
Ranked(dir) ==
    {[f EXCEPT !.ctime = Rank(@, {g.ctime : g \in dir}),
               !.birth = Rank(@, {g.birth : g \in dir})] : f \in dir}

\* collector.py create_chat_log_file, lines 21-29 (utils.py lines 13-21):
\* chat_log_{video_id}_{YYYYMMDD_HHMMSS}.csv is opened in mode 'w' and the
\* header row is written; a file of the same name is replaced.
CreateLog(dir, s, later) ==
    Ranked({f \in dir : FileName(f) # <<s, StampNow(dir, later)>>}
             \cup {[stream |-> s, stamp |-> StampNow(dir, later),
                     ctime |-> TimeNow(dir), birth |-> TimeNow(dir),
                     rows |-> <<Header>>]})

\* The worker creates its log (collector.py line 45).
WorkerCreatesLog(p, later) ==
    /\ proc[p].state = "spawned"
    /\ files = {} => later
    /\ files' = CreateLog(files, proc[p].stream, later)
    /\ proc' = [proc EXCEPT ![p].state = "collecting"]
    /\ UNCHANGED <<heap, snapRef, signals, call, ret, threaded, dataVars>>

\* The worker process ends: the feed ended, it crashed, or it obeyed a signal.
WorkerExits(p) ==
    /\ Running(p)
    /\ proc' = [proc EXCEPT ![p].state = "exited"]
    /\ UNCHANGED <<heap, snapRef, signals, files, call, ret, threaded, dataVars>>

\* ------------------------------------------------------------------ spec
Next ==
    \/ \E t \in Threads, s \in Streams, a \in BOOLEAN, b \in BOOLEAN,
          ok \in BOOLEAN : StartSpawn(t, s, a, b, ok)
    \/ \E t \in Threads, ok \in BOOLEAN : StartLookup(t, ok)
    \/ \E t \in Threads, s \in Streams,
          o \in {"untracked", "ok", "absent", "error"} : StopBegin(t, s, o)
    \/ \E t \in Threads, o \in {"exited", "absent", "timeout", "error"} :
          StopFirstWait(t, o)
    \/ \E t \in Threads, o \in {"ok", "absent", "error"} : StopKill(t, o)
    \/ \E t \in Threads, o \in {"exited", "absent", "timeout", "error"} :
          StopSecondWait(t, o)
    \/ \E t \in Threads : WaitTick(t)
    \/ \E t \in Threads : get_running_processes(t)
    \/ \E s \in Streams : CallerMutatesSnapshot(s)
    \/ \E p \in Pids, later \in BOOLEAN : WorkerCreatesLog(p, later)
    \/ \E p \in Pids : WorkerExits(p)

\* Request handling one request at a time.
Spec == Init /\ [][Next]_vars

\* Request handling on several threads: the start and stop handlers and
\* the workers.
NextThreads ==
    \/ \E t \in Threads, s \in Streams, a \in BOOLEAN, b \in BOOLEAN,
          ok \in BOOLEAN : StartSpawn(t, s, a, b, ok)
    \/ \E t \in Threads, ok \in BOOLEAN : StartLookup(t, ok)
    \/ \E t \in Threads, s \in Streams,
          o \in {"untracked", "ok", "absent", "error"} : StopBegin(t, s, o)
    \/ \E t \in Threads, o \in {"exited", "absent", "timeout", "error"} :
          StopFirstWait(t, o)
    \/ \E t \in Threads, o \in {"ok", "absent", "error"} : StopKill(t, o)
    \/ \E t \in Threads, o \in {"exited", "absent", "timeout", "error"} :
          StopSecondWait(t, o)
    \/ \E t \in Threads : WaitTick(t)
    \/ \E p \in Pids : WorkerExits(p)

SpecThreads == InitThreads /\ [][NextThreads]_vars

\* A step of the stop handler running on thread t after its first one:
\* a wait goes on for a unit of time or returns, or the kill is sent.
StopProgress(t) ==
    \/ \E o \in {"exited", "absent", "timeout", "error"} : StopFirstWait(t, o)
    \/ \E o \in {"ok", "absent", "error"} : StopKill(t, o)
    \/ \E o \in {"exited", "absent", "timeout", "error"} : StopSecondWait(t, o)
    \/ WaitTick(t)

\* The start and stop handlers, one request at a time, with the scheduling
\* they rely on: a handler that can take its next step takes it (its thread
\* is scheduled, time passes and wait(timeout) returns when its time is up).
\* Nothing is assumed of the workers.
SpecFair ==
    Init /\ [][NextThreads]_vars /\ \A t \in Threads : WF_vars(StopProgress(t))

\* ============================================================ data path
supVars == <<heap, snapRef, proc, signals, call, ret, threaded>>

\* The number of data rows in the logs of the directory.
RECURSIVE DataRows(_)
DataRows(dir) ==
    IF dir = {} THEN 0
    ELSE LET f == CHOOSE g \in dir : TRUE
         IN (Len(f.rows) - 1) + DataRows(dir \ {f})

\* The stream the requests to the log and import endpoints are made for,
\* and the one written for where only the write paths run.
Requested == {"s1"}

\* The file of the directory with the given name.
FileNamed(dir, name) == CHOOSE f \in dir : FileName(f) = name

\* collector.py lines 58-65, message_writer_service.py lines 38-45: a row is
\* appended to the file; where getctime is the time of the last change, the
\* append moves it.
AppendRow(dir, name, row, px) ==
    Ranked({IF FileName(f) = name
            THEN [f EXCEPT !.rows = Append(@, row),
                           !.ctime = IF px THEN TimeNow(dir) ELSE @]
            ELSE f : f \in dir})

\* csv.writer writes None as the empty string (collector.py line 64 does it
\* itself: message['superChat'] or '').
CsvField(v) == IF v = None THEN "" ELSE v

\* collector.py lines 51-56: the message built from a chat event.
MessageOf(ev) ==
    [datetime |-> ev.datetime, author |-> ev.author, message |-> ev.message,
     superChat |-> ev.amountString]

\* collector.py lines 60-65, message_writer_service.py lines 40-45.
RowOf(m) == <<m.datetime, m.author, m.message, CsvField(m.superChat)>>

\* collector.py line 67, message_writer_service.py lines 31-34: the document
\* handed to insert_one.
DocOf(m, s) ==
    [video_id |-> s, datetime |-> m.datetime, author |-> m.author,
     message |-> m.message, superChat |-> m.superChat]

\* collector.py line 15, message_writer_service.py line 21.
WorkerCollection(s) == <<"messages", s>>

\* What one write of a message does, given whether the append to the log
\* and the insert into the store work: is the row in the log, is the
\* document in the store, does the write raise.
\* collector.py lines 48-74: both writes are inside the one try around the
\* whole loop, so the first failure skips the rest and ends the loop.
CollectorWriteEffect(csvOk, dbOk) ==
    [logged |-> csvOk, stored |-> csvOk /\ dbOk, raised |-> ~(csvOk /\ dbOk)]

\* Variant: a failed append to the log is not caught.
ServiceWriteEffect_unguarded(csvOk, dbOk) ==
    [logged |-> csvOk, stored |-> csvOk /\ dbOk, raised |-> ~csvOk]

\* message_writer_service.py lines 36-55: each write has its own try/except
\* that only prints.
ServiceWriteEffect(csvOk, dbOk) ==
    [logged |-> csvOk, stored |-> dbOk, raised |-> FALSE]

\* A write loop starts and creates its log.
WriterStarts(kind, s, later) ==
    /\ files = {} => later
    /\ Cardinality(CreateLog(files, s, later)) <= MaxFiles
    /\ files' = CreateLog(files, s, later)
    /\ writers' = writers \cup {[file |-> <<s, StampNow(files, later)>>,
                                 kind |-> kind]}
    /\ out' = NoOut
    /\ UNCHANGED <<store, collection_datetimes, posix, supVars>>

\* collector.py lines 44-47: store_chat_messages creates the log.
store_chat_messages(s, later) == WriterStarts("collector", s, later)

\* message_writer_service.py lines 11-23: MessageWriterService.__init__.
MessageWriterService(s, later) == WriterStarts("service", s, later)

\* One message is written by the loop w: the row goes to the log and the
\* document to the store as far as `eff` says; a write that raises ends a
\* collector loop.
WriteMessage(w, ev, csvOk, dbOk, eff) ==
    LET s == w.file[1]
        m == MessageOf(ev)
        f == FileNamed(files, w.file)
        coll == WorkerCollection(s)
    IN
    /\ w \in writers
    /\ DataRows(files) < MaxRows
    /\ Len(store[coll]) < MaxRows
    /\ files' = IF eff.logged THEN AppendRow(files, w.file, RowOf(m), posix)
                ELSE files
    /\ store' = IF eff.stored
                THEN [store EXCEPT ![coll] = Append(@, DocOf(m, s))]
                ELSE store
    /\ writers' = IF eff.raised /\ w.kind = "collector" THEN writers \ {w}
                  ELSE writers
    /\ out' = Out(w.kind, s, 0, 0, <<>>, w.file, coll, store[coll],
                  [csvOk |-> csvOk, dbOk |-> dbOk, raised |-> eff.raised,
                   rows |-> Len(f.rows)])
    /\ UNCHANGED <<collection_datetimes, posix, supVars>>

\* collector.py lines 50-70: one pass of the loop of store_chat_messages.
CollectorWrites(w, ev, csvOk, dbOk) ==
    /\ w.kind = "collector"
    /\ WriteMessage(w, ev, csvOk, dbOk, CollectorWriteEffect(csvOk, dbOk))

\* message_writer_service.py lines 25-55: MessageWriterService.write_message.
write_message(w, ev, csvOk, dbOk) ==
    /\ w.kind = "service"
    /\ WriteMessage(w, ev, csvOk, dbOk, ServiceWriteEffect(csvOk, dbOk))

\* ----------------------------------------------------- main.py: the logs
\* main.py lines 195-200: get_latest_chat_log_file.
get_latest_chat_log_file(dir, s) ==
    IF MatchingFiles(dir, s) = {} THEN NullName
    ELSE FileName(LatestFile(MatchingFiles(dir, s)))

\* main.py lines 51-61: the collection of a stream is messages_{video_id}_{dt}
\* where dt is the clock second of the first use for that stream.
get_collection_datetime(cd, s, now) == IF cd[s] = 0 THEN now ELSE cd[s]
get_messages_collection(cd, s, now) ==
    <<"messages", s, get_collection_datetime(cd, s, now)>>

\* main.py lines 239-249: the data rows (the header is skipped, rows of
\* fewer than four fields are dropped) as messages of the stream.
ImportMessages(rows, s) ==
    LET data == SelectSeq(Tail(rows), LAMBDA r : Len(r) >= 4)
    IN [i \in 1..Len(data) |->
           [video_id |-> s, datetime |-> data[i][1], author |-> data[i][2],
            message |-> data[i][3], superChat |-> data[i][4]]]

\* Variant: the super chat amount is part of the key.
KeyOf_withSuperChat(d) ==
    <<d.video_id, d.datetime, d.author, d.message, d.superChat>>

\* main.py lines 255-260: the fields find_one filters on.
KeyOf(d) == <<d.video_id, d.datetime, d.author, d.message>>

\* Variant: only the newest document is looked at.
Found_last(docs, msg) ==
    Len(docs) > 0 /\ KeyOf(docs[Len(docs)]) = KeyOf(msg)

\* Variant: nothing is ever found.
Found_never(docs, msg) == FALSE

\* main.py lines 255-260: find_one gives a document.
Found(docs, msg) == \E i \in 1..Len(docs) : KeyOf(docs[i]) = KeyOf(msg)

\* Variant: every message read counts as inserted.
Counted_all(found) == 1

\* main.py lines 261-262: the counter goes up with each insert.
Counted(found) == IF found THEN 0 ELSE 1

\* main.py lines 253-262: the loop over the messages from the k-th on; the
\* store raises at message failAt (never when failAt = 0), which ends the
\* loop at once.
RECURSIVE ImportLoop(_, _, _, _)
ImportLoop(docs, msgs, k, failAt) ==
    IF k > Len(msgs)
    THEN [docs |-> docs, inserted |-> 0, raised |-> FALSE]
    ELSE IF k = failAt
    THEN [docs |-> docs, inserted |-> 0, raised |-> TRUE]
    ELSE LET found == Found(docs, msgs[k])
             rest == ImportLoop(IF found THEN docs ELSE Append(docs, msgs[k]),
                                msgs, k + 1, failAt)
         IN [rest EXCEPT !.inserted = @ + Counted(found)]

\* Variant: a missing log is answered like an empty one.
NoLogResponse_empty == [code |-> 200, inserted |-> 0]

\* main.py lines 234-235 (206-207): JSONResponse(status_code=404).
NoLogResponse == [code |-> 404, inserted |-> None]

\* Variant: an error of the store ends the import with the count so far.
ImportResponse_partial(r) == [code |-> 200, inserted |-> r.inserted]

\* main.py lines 252-263: the count is returned; an exception of the store
\* is not caught and becomes the server error of the framework.
ImportResponse(r) ==
    IF r.raised THEN [code |-> 500, inserted |-> None]
    ELSE [code |-> 200, inserted |-> r.inserted]

\* main.py lines 230-263: import_csv_to_mongo.
import_csv_to_mongo(s, failAt) ==
    LET name == get_latest_chat_log_file(files, s)
        msgs == ImportMessages(FileNamed(files, name).rows, s)
        now == StampNow(files, FALSE)
        coll == get_messages_collection(collection_datetimes, s, now)
        r == ImportLoop(store[coll], msgs, 1, failAt)
    IN
    IF name = NullName
    THEN /\ failAt = 0
         /\ out' = Out("import", s, NoLogResponse.code, NoLogResponse.inserted,
                       <<>>, name, <<>>, <<>>, failAt)
         /\ UNCHANGED <<files, store, collection_datetimes, writers, posix,
                        supVars>>
    ELSE IF msgs = <<>>
    THEN /\ failAt = 0
         /\ out' = Out("import", s, 200, 0, <<>>, name, <<>>, <<>>, failAt)
         /\ UNCHANGED <<files, store, collection_datetimes, writers, posix,
                        supVars>>
    ELSE /\ failAt <= Len(msgs)
         /\ store' = [store EXCEPT ![coll] = r.docs]
         /\ collection_datetimes' =
                [collection_datetimes EXCEPT ![s] =
                     get_collection_datetime(collection_datetimes, s, now)]
         /\ out' = Out("import", s, ImportResponse(r).code,
                       ImportResponse(r).inserted, <<>>, name, coll,
                       store[coll], failAt)
         /\ UNCHANGED <<files, writers, posix, supVars>>

\* datetime.strptime(text, "%Y-%m-%d %H:%M:%S") and dt.timestamp(): the
\* seconds since the epoch of the texts that have this format.
EpochSeconds == [t \in {"2023-01-01 10:00:00"} |-> 1672567200]

\* A count of milliseconds n is written as the pair of n \div 10^6 and
\* n % 10^6, since n itself is wider than the integers of the checker.
Millis(secs) == [high |-> secs \div 1000, low |-> (secs % 1000) * 1000]

\* main.py lines 222-226: the derived timestamp in milliseconds, 0 when the
\* text does not parse.
DerivedTimestamp(text) ==
    IF text \in DOMAIN EpochSeconds THEN Millis(EpochSeconds[text])
    ELSE Millis(0)

\* Variant: rows whose timestamp does not parse are left out.
FetchRecords_skipping(rows, s) ==
    LET data == SelectSeq(Tail(rows), LAMBDA r :
                    Len(r) >= 4 /\ r[1] \in DOMAIN EpochSeconds)
    IN [i \in 1..Len(data) |->
           [datetime |-> data[i][1], author |-> data[i][2],
            message |-> data[i][3], superChat |-> data[i][4],
            video_id |-> s, timestamp |-> DerivedTimestamp(data[i][1])]]

\* main.py lines 208-227: one record for each data row, in file order.
FetchRecords(rows, s) ==
    LET data == SelectSeq(Tail(rows), LAMBDA r : Len(r) >= 4)
    IN [i \in 1..Len(data) |->
           [datetime |-> data[i][1], author |-> data[i][2],
            message |-> data[i][3], superChat |-> data[i][4],
            video_id |-> s, timestamp |-> DerivedTimestamp(data[i][1])]]

\* main.py lines 202-228: get_chat_log_messages.
get_chat_log_messages(s) ==
    LET name == get_latest_chat_log_file(files, s) IN
    /\ out' = IF name = NullName
              THEN Out("fetch", s, NoLogResponse.code, 0, <<>>, name, <<>>,
                       <<>>, <<>>)
              ELSE Out("fetch", s, 200, 0,
                       FetchRecords(FileNamed(files, name).rows, s), name,
                       <<>>, <<>>, <<>>)
    /\ UNCHANGED <<files, store, collection_datetimes, writers, posix,
                   supVars>>

\* main.py lines 183-186: get_messages returns the documents of the
\* stream's collection; naming the collection fixes its datetime at the
\* first use.
get_messages(s) ==
    LET now == StampNow(files, FALSE)
        coll == get_messages_collection(collection_datetimes, s, now)
    IN
    /\ collection_datetimes' =
           [collection_datetimes EXCEPT ![s] =
                get_collection_datetime(collection_datetimes, s, now)]
    /\ out' = Out("messages", s, 200, 0, store[coll], NullName, coll,
                  store[coll], <<>>)
    /\ UNCHANGED <<files, store, writers, posix, supVars>>

\* main.py lines 188-192: analyze_messages returns their number.
analyze_messages(s) ==
    LET now == StampNow(files, FALSE)
        coll == get_messages_collection(collection_datetimes, s, now)
    IN
    /\ collection_datetimes' =
           [collection_datetimes EXCEPT ![s] =
                get_collection_datetime(collection_datetimes, s, now)]
    /\ out' = Out("analyze", s, 200, Len(store[coll]), <<>>, NullName, coll,
                  store[coll], <<>>)
    /\ UNCHANGED <<files, store, writers, posix, supVars>>

\* ------------------------------------------------------------ data spec
InitData ==
    /\ heap = [o \in ObjIds |-> EmptyDict]
    /\ snapRef = NoRef
    /\ proc = [p \in Pids |-> [state |-> "none", stream |-> "s1"]]
    /\ signals = <<>>
    /\ files = {}
    /\ call = [t \in Threads |-> Idle]
    /\ ret = NoRet
    /\ threaded = FALSE
    /\ DataIdle
    /\ posix \in BOOLEAN

\* The worker's loop with both of its targets working, each run beginning
\* in a clock second of its own, and the log and import endpoints of main.py.
NextData ==
    \/ \E s \in Streams : store_chat_messages(s, TRUE)
    \/ \E w \in writers, ev \in Events : CollectorWrites(w, ev, TRUE, TRUE)
    \/ \E s \in Requested, failAt \in 0..MaxRows : import_csv_to_mongo(s, failAt)
    \/ \E s \in Requested : get_chat_log_messages(s)

SpecData == InitData /\ [][NextData]_vars

\* The same with the query and analyze endpoints of main.py.
NextQuery ==
    \/ NextData
    \/ \E s \in Requested : get_messages(s)
    \/ \E s \in Requested : analyze_messages(s)

SpecQuery == InitData /\ [][NextQuery]_vars

\* collector.py lines 57-65: the loop w of store_chat_messages appends the
\* row of a message to its log; the insert of line 68 is still to come.
CollectorAppends(w, ev) ==
    LET s == w.file[1]
        f == FileNamed(files, w.file)
    IN
    /\ w \in writers /\ w.kind = "collector"
    /\ DataRows(files) < MaxRows
    /\ Len(store[WorkerCollection(s)]) < MaxRows
    /\ files' = AppendRow(files, w.file, RowOf(MessageOf(ev)), posix)
    /\ writers' = (writers \ {w})
                      \cup {[file |-> w.file, kind |-> "appended",
                              message |-> MessageOf(ev)]}
    /\ out' = Out("append", s, 0, 0, <<>>, w.file, WorkerCollection(s),
                  store[WorkerCollection(s)], [rows |-> Len(f.rows)])
    /\ UNCHANGED <<store, collection_datetimes, posix, supVars>>

\* collector.py lines 67-68: the loop inserts the message it has appended
\* (insert_one, with no lookup before it) and goes on with the next one.
CollectorInserts(w) ==
    LET s == w.file[1]
        coll == WorkerCollection(s)
    IN
    /\ w \in writers /\ w.kind = "appended"
    /\ store' = [store EXCEPT ![coll] = Append(@, DocOf(w.message, s))]
    /\ writers' = (writers \ {w}) \cup {[file |-> w.file, kind |-> "collector"]}
    /\ out' = Out("insert", s, 0, 0, <<>>, w.file, coll, store[coll],
                  [rows |-> Len(FileNamed(files, w.file).rows)])
    /\ UNCHANGED <<files, collection_datetimes, posix, supVars>>

\* The worker's loop step by step, with the import endpoint of main.py
\* running at any point of it.
NextRace ==
    \/ \E s \in Requested : store_chat_messages(s, TRUE)
    \/ \E w \in writers, ev \in Events : CollectorAppends(w, ev)
    \/ \E w \in writers : CollectorInserts(w)
    \/ \E s \in Requested, failAt \in 0..MaxRows : import_csv_to_mongo(s, failAt)

SpecRace == InitData /\ [][NextRace]_vars

\* The events of the feed without a super chat and with a well-formed time.
PlainEvents ==
    {ev \in Events : ev.amountString = None
                     /\ ev.datetime \in DOMAIN EpochSeconds}

\* The two write paths, for one stream and plain events, with targets that
\* may fail.
NextWrite ==
    \/ \E s \in Requested, later \in BOOLEAN : store_chat_messages(s, later)
    \/ \E s \in Requested, later \in BOOLEAN : MessageWriterService(s, later)
    \/ \E w \in writers, ev \in PlainEvents, csvOk \in BOOLEAN,
          dbOk \in BOOLEAN : CollectorWrites(w, ev, csvOk, dbOk)
    \/ \E w \in writers, ev \in PlainEvents, csvOk \in BOOLEAN,
          dbOk \in BOOLEAN : write_message(w, ev, csvOk, dbOk)

SpecWrite == InitData /\ [][NextWrite]_vars

\* ------------------------------------------- main.py: start and stop
\* main.py keeps a table of its own (line 118), with the same shape as the
\* one of process_service.py; where its endpoints run it is the table of
\* the model.
\* What stopping a tracked worker can come to: the worker is gone within
\* the wait ("stopped"), the wait times out ("timeout"), psutil reports the
\* process absent ("absent") or fails otherwise ("error").
MainStopResults(p) ==
    IF Running(p) THEN {"stopped", "timeout", "error"}
    ELSE {"stopped", "absent", "error"}

\* main.py lines 133-143: the response of stop_chat_collection. Every
\* branch returns a dict, which the framework sends with status 200; the
\* entry is deleted on the one path that reaches line 140.
MainStopResponse(tracked, result) ==
    IF ~tracked THEN [code |-> 200, status |-> "not running", remove |-> FALSE]
    ELSE IF result = "stopped"
    THEN [code |-> 200, status |-> "stopped", remove |-> TRUE]
    ELSE [code |-> 200, status |-> "error", remove |-> FALSE]

\* main.py lines 120-129: start_chat_collection.
start_chat_collection(s, spawnOk, listOk) ==
    LET p == NextPid
        c == Call("done", "start_chat", s, IF spawnOk THEN p ELSE NoPid,
                  collector_processes, <<spawnOk, listOk>>, 0)
        seen == IF listOk THEN MatchingFiles(files, s) ELSE {}
    IN
    /\ p # NoPid
    /\ \A t \in Threads : call[t].pc = "idle"
    /\ proc' = IF spawnOk
               THEN [proc EXCEPT ![p] = [state |-> "spawned", stream |-> s]]
               ELSE proc
    /\ heap' = IF spawnOk
               THEN [heap EXCEPT ![TableObj] = Put(collector_processes, s, p)]
               ELSE heap
    /\ signals' = <<>>
    /\ ret' = IF spawnOk /\ listOk
              THEN Ret("start_chat", s, 200, "started", p,
                       IF seen = {} THEN NullName ELSE FileName(LatestFile(seen)),
                       seen, c)
              ELSE Ret("start_chat", s, 500, "none", c.pid, NullName, seen, c)
    /\ UNCHANGED <<snapRef, files, call, threaded, dataVars>>

\* main.py lines 131-143: stop_chat_collection.
stop_chat_collection(s, result) ==
    LET p == collector_processes[s]
        tracked == HasKey(collector_processes, s)
        r == MainStopResponse(tracked, result)
        c == Call("done", "stop_chat", s, p, collector_processes, <<result>>, 0)
        signalled == tracked /\ result \in {"stopped", "timeout"}
    IN
    /\ \A t \in Threads : call[t].pc = "idle"
    /\ IF tracked THEN result \in MainStopResults(p) ELSE result = "untracked"
    /\ signals' = IF signalled THEN <<[pid |-> p, sig |-> "SIGTERM"]>> ELSE <<>>
    /\ proc' = IF tracked /\ result = "stopped"
               THEN [proc EXCEPT ![p].state = "exited"]
               ELSE proc
    /\ heap' = IF r.remove
               THEN [heap EXCEPT ![TableObj] = Remove(collector_processes, s)]
               ELSE heap
    /\ ret' = Ret("stop_chat", s, r.code, r.status, p, NullName, {}, c)
    /\ UNCHANGED <<snapRef, files, call, threaded, dataVars>>

\* The endpoints of main.py and the workers they spawn.
NextMain ==
    \/ \E s \in Streams, spawnOk \in BOOLEAN, listOk \in BOOLEAN :
          start_chat_collection(s, spawnOk, listOk)
    \/ \E s \in Streams,
          result \in {"untracked", "stopped", "timeout", "absent", "error"} :
          stop_chat_collection(s, result)
    \/ \E p \in Pids, later \in BOOLEAN : WorkerCreatesLog(p, later)
    \/ \E p \in Pids : WorkerExits(p)

SpecMain == Init /\ [][NextMain]_vars

\* ------------------------------------------- main.py: chat_callback
\* The invocations of the callback are coroutines of one event loop; each
\* runs from one await to the next without interruption. `call` holds, for
\* an invocation, its file name (pre), the items of its chat data (path) and
\* how many of them it has written (waited).
\* main.py line 79: `async with asyncio.Lock()` makes a new lock in each
\* invocation, so the lock of an invocation is its own.
LockOf(t) == t

\* The invocation is inside its `async with` block.
InSection(t) == call[t].op = "chat_callback"

\* Acquiring a lock that nobody holds succeeds at once.
LockFree(l, t) == \A u \in Threads \ {t} : InSection(u) => LockOf(u) # l

\* main.py lines 84-89: the message of an item; lines 91-96: its row;
\* line 97: the document is the message itself.
CallbackRow(ev) ==
    <<ev.datetime, ev.author, ev.message, CsvField(ev.amountString)>>
CallbackDoc(ev) ==
    [datetime |-> ev.datetime, author |-> ev.author, message |-> ev.message,
     amountString |-> ev.amountString]

\* The rows written to the file object reach the file when the `with open`
\* block is left.
RECURSIVE AppendRows(_, _, _, _)
AppendRows(dir, name, rows, px) ==
    IF rows = <<>> THEN dir
    ELSE AppendRows(AppendRow(dir, name, Head(rows), px), name, Tail(rows), px)

\* The lists of items a chat data object can hold.
ItemLists == UNION {[1..n -> Events] : n \in 1..MaxRows}

\* main.py lines 77-98, up to the first await: the lock is taken, the file
\* opened, the collection named, the first item written and inserted.
chat_callback(t, name, items) ==
    LET s == name[1]
        now == StampNow(files, FALSE)
        coll == get_messages_collection(collection_datetimes, s, now)
    IN
    /\ call[t].pc = "idle"
    /\ \E f \in files : FileName(f) = name
    /\ LockFree(LockOf(t), t)
    /\ Len(store[coll]) < MaxRows
    /\ collection_datetimes' =
           [collection_datetimes EXCEPT ![s] =
                get_collection_datetime(collection_datetimes, s, now)]
    /\ store' = [store EXCEPT ![coll] = Append(@, CallbackDoc(items[1]))]
    /\ call' = [call EXCEPT ![t] =
                   Call("tick", "chat_callback", s, NoPid, name, items, 1)]
    /\ out' = Out("chat_callback", s, 0, 0, <<>>, name, coll, store[coll], t)
    /\ UNCHANGED <<heap, snapRef, proc, signals, files, ret, threaded, writers,
                   posix>>

\* main.py lines 83-98, from one `await chatdata.tick_async()` on: the next
\* item is written and inserted, or the blocks are left, which closes the
\* file and releases the lock.
CallbackResumes(t) ==
    LET c == call[t]
        n == c.waited
    IN
    /\ c.op = "chat_callback" /\ c.pc = "tick"
    /\ IF n < Len(c.path)
       THEN /\ store' = [store EXCEPT
                   ![get_messages_collection(collection_datetimes, c.stream, 0)] =
                       Append(@, CallbackDoc(c.path[n + 1]))]
            /\ call' = [call EXCEPT ![t].waited = n + 1]
            /\ files' = files
       ELSE /\ files' = AppendRows(files, c.pre,
                                   [i \in 1..Len(c.path) |-> CallbackRow(c.path[i])],
                                   posix)
            /\ call' = [call EXCEPT ![t] = Idle]
            /\ store' = store
    /\ out' = [out EXCEPT !.input = t]
    /\ UNCHANGED <<heap, snapRef, proc, signals, ret, threaded,
                   collection_datetimes, writers, posix>>

\* A log exists and no invocation runs.
InitCallback ==
    /\ heap = [o \in ObjIds |-> EmptyDict]
    /\ snapRef = NoRef
    /\ proc = [p \in Pids |-> [state |-> "none", stream |-> "s1"]]
    /\ signals = <<>>
    /\ files = CreateLog({}, "s1", TRUE)
    /\ call = [t \in Threads |-> Idle]
    /\ ret = NoRet
    /\ threaded = FALSE
    /\ DataIdle
    /\ posix \in BOOLEAN

NextCallback ==
    \/ \E t \in Threads, items \in ItemLists :
          chat_callback(t, <<"s1", 1>>, items)
    \/ \E t \in Threads : CallbackResumes(t)

SpecCallback == InitCallback /\ [][NextCallback]_vars

\* ---------------------------------------------------------------- claims
\* The responses of the handlers, by the answers the environment gave.
StopReturned(path) == ret.op = "stop" /\ ret.path = path
StartReturned == ret.op = "start" /\ Len(ret.path) >= 3
StartScriptFound == ScriptFound(ret.path[1], ret.path[2])
StartSpawned == StartScriptFound /\ ret.path[3]
Tracked == ret.pid # NoPid /\ ret.pre[ret.stream] = ret.pid
EntryRemoved == ~HasKey(collector_processes, ret.stream)
EntryKept == collector_processes[ret.stream] = ret.pid
SentTo(p, sig) == \E i \in 1..Len(signals) : signals[i] = [pid |-> p, sig |-> sig]

\* C1: when the worker of a tracked stream exits within the 5-unit wait after
\* the graceful signal, stop returns status "stopped", the stream's entry is
\* gone from the table, and the call sent no SIGKILL (its only signal is the
\* SIGINT to that worker).
C1_GracefulStop ==
    StopReturned(<<"ok", "exited">>) =>
        /\ Tracked
        /\ ret.code = 200 /\ ret.status = "stopped"
        /\ EntryRemoved
        /\ \A i \in 1..Len(signals) : signals[i].sig # "SIGKILL"
        /\ signals = <<[pid |-> ret.pid, sig |-> "SIGINT"]>>

C1_Witness == StopReturned(<<"ok", "exited">>) /\ ret.status = "stopped"

\* C2: a SIGKILL is only ever sent as the second signal of a stop call, to
\* the process that got the SIGINT, after the first wait timed out; a stop
\* whose first wait timed out does attempt the kill; and when the worker then
\* exits within the 2-unit wait, stop returns status "killed" and the
\* stream's entry is gone from the table.
C2_ForcedStop ==
    /\ \A i \in 1..Len(signals) : signals[i].sig = "SIGKILL" =>
          /\ i = 2
          /\ signals[1] = [pid |-> signals[i].pid, sig |-> "SIGINT"]
          /\ \/ \E t \in Threads : /\ call[t].op = "stop"
                                   /\ call[t].pid = signals[i].pid
                                   /\ call[t].path = <<"ok", "timeout", "ok">>
             \/ /\ ret.op = "stop" /\ ret.pid = signals[i].pid
                /\ Len(ret.path) = 4
                /\ SubSeq(ret.path, 1, 3) = <<"ok", "timeout", "ok">>
    /\ (ret.op = "stop" /\ Len(ret.path) >= 2 /\ ret.path[2] = "timeout") =>
          /\ Len(ret.path) >= 3
          /\ ret.path[3] = "ok" => SentTo(ret.pid, "SIGKILL")
    /\ StopReturned(<<"ok", "timeout", "ok", "exited">>) =>
          /\ Tracked
          /\ ret.code = 200 /\ ret.status = "killed"
          /\ EntryRemoved
          /\ signals = <<[pid |-> ret.pid, sig |-> "SIGINT"],
                         [pid |-> ret.pid, sig |-> "SIGKILL"]>>

C2_Witness ==
    StopReturned(<<"ok", "timeout", "ok", "exited">>) /\ ret.status = "killed"

\* C3: when the process of a tracked stream is reported absent at the
\* graceful signal or during the first wait, the stream's entry is removed
\* and stop fails with 404; it does not return a success.
C3_StopAbsentProcess ==
    (StopReturned(<<"absent">>) \/ StopReturned(<<"ok", "absent">>)) =>
        /\ Tracked
        /\ ret.code = 404
        /\ ret.status \notin {"stopped", "killed"}
        /\ EntryRemoved

C3_Witness == StopReturned(<<"absent">>) /\ ret.code = 404

\* C4: stop for a stream without an entry fails with 404, sends no signal
\* and leaves the table as it was.
C4_StopUntracked ==
    (ret.op = "stop" /\ ~HasKey(ret.pre, ret.stream)) =>
        /\ ret.code = 404
        /\ signals = <<>>
        /\ collector_processes = ret.pre

C4_Witness ==
    /\ ret.op = "stop" /\ ~HasKey(ret.pre, ret.stream)
    /\ ret.pre # EmptyDict
    /\ ret.code = 404

\* C5: when the kill after a timed-out graceful wait raises an error other
\* than process-absent, stop fails with 500 and the stream's entry is still
\* in the table with the same pid.
C5_KillFails ==
    StopReturned(<<"ok", "timeout", "error">>) =>
        /\ Tracked
        /\ ret.code = 500
        /\ EntryKept

C5_Witness == StopReturned(<<"ok", "timeout", "error">>) /\ ret.code = 500

\* C6: when, after a timed-out graceful wait, the process is reported absent
\* at the kill or during the 2-unit wait, stop fails with 404 and the
\* stream's entry is removed.
C6_KillAbsentProcess ==
    (\/ StopReturned(<<"ok", "timeout", "absent">>)
     \/ StopReturned(<<"ok", "timeout", "ok", "absent">>)) =>
        /\ Tracked
        /\ ret.code = 404
        /\ EntryRemoved

C6_Witness == StopReturned(<<"ok", "timeout", "absent">>) /\ ret.code = 404

\* C7: start for a stream that already has an entry is not rejected: with
\* the entry point found and the spawn succeeding it returns "started", the
\* entry holds the pid of the new worker, which differs from the recorded
\* one, and the call sent no signal.
C7_StartOverwrites ==
    (StartReturned /\ HasKey(ret.pre, ret.stream) /\ StartSpawned) =>
        /\ ret.code = 200 /\ ret.status = "started"
        /\ ret.pid \in Pids
        /\ ret.pid # ret.pre[ret.stream]
        /\ proc[ret.pid].state # "none" /\ proc[ret.pid].stream = ret.stream
        /\ collector_processes[ret.stream] = ret.pid
        /\ signals = <<>>

C7_Witness ==
    /\ StartReturned /\ HasKey(ret.pre, ret.stream) /\ StartSpawned
    /\ ret.status = "started"

\* C8: when start fails because the entry point is at neither path or
\* because the spawn raises, it answers 500 and the table is as before the
\* call.
C8_StartFails ==
    (StartReturned /\ ~StartSpawned) =>
        /\ ret.code = 500
        /\ collector_processes = ret.pre

C8_Witness ==
    /\ StartReturned /\ StartScriptFound /\ ~ret.path[3]
    /\ HasKey(ret.pre, ret.stream)
    /\ ret.code = 500

C8_WitnessNoScript ==
    StartReturned /\ ~StartScriptFound /\ HasKey(ret.pre, ret.stream)

\* C9: once the worker is spawned, start returns "started" with the pid of
\* the spawned process, the table maps the stream to that pid, and when the
\* listing of the log directory fails or finds no log of the stream the
\* filename is null.
C9_StartAfterSpawn ==
    (ret.op = "start" /\ ret.pid # NoPid) =>
        /\ Len(ret.path) = 4
        /\ ret.code = 200 /\ ret.status = "started"
        /\ proc[ret.pid].state # "none" /\ proc[ret.pid].stream = ret.stream
        /\ collector_processes[ret.stream] = ret.pid
        /\ (~ret.path[4] \/ ret.seen = {}) => ret.filename = NullName

C9_Witness ==
    /\ ret.op = "start" /\ ret.pid # NoPid
    /\ ~ret.path[4]
    /\ MatchingFiles(files, ret.stream) # {}
    /\ ret.filename = NullName

C9_WitnessNoLogYet ==
    /\ ret.op = "start" /\ ret.pid # NoPid
    /\ ret.path[4] /\ ret.seen = {}

\* C10: get_running_processes returns a dict equal to the table at the time
\* of the call and leaves the table alone; a later change of the table by
\* start or stop leaves the returned dict unchanged; a change of the
\* returned dict by its holder leaves the table unchanged.
C10_SnapshotIsolation ==
    [][ /\ (\E t \in Threads : get_running_processes(t)) =>
              /\ snapRef' # NoRef
              /\ heap'[snapRef'] = collector_processes
              /\ collector_processes' = collector_processes
        /\ (snapRef # NoRef /\ collector_processes' # collector_processes) =>
              /\ snapRef' = snapRef
              /\ heap'[snapRef] = heap[snapRef]
        /\ (\E s \in Streams : CallerMutatesSnapshot(s)) =>
              collector_processes' = collector_processes ]_vars

C10_Witness ==
    /\ snapRef # NoRef
    /\ ret.op = "stop" /\ ret.code = 200
    /\ HasKey(heap[snapRef], ret.stream)
    /\ EntryRemoved

C10_WitnessCallerChange ==
    /\ snapRef # NoRef
    /\ ret.op = "list"
    /\ heap[snapRef] # collector_processes

\* ------------------------------------------------- claims: the data path
\* The natural key of a stored record or of a log row of stream s.
NaturalKey(d) == <<d.video_id, d.datetime, d.author, d.message>>
RowKey(s, r) == <<s, r[1], r[2], r[3]>>
DocKeys(docs) == {NaturalKey(docs[i]) : i \in 1..Len(docs)}
IsPrefix(a, b) == Len(a) <= Len(b) /\ SubSeq(b, 1, Len(a)) = a

\* The data rows of the log the last import or fetch read.
RowsRead == Tail(FileNamed(files, out.file).rows)
RowKeysBefore(k) == {RowKey(out.stream, RowsRead[i]) : i \in 1..(k - 1)}

\* The last operation was an import that found a log / that went through
\* its rows.
ImportRead == out.op = "import" /\ out.file # NullName
ImportLooped == ImportRead /\ Len(out.coll) = 3
Imported == ImportRead /\ out.code = 200

\* C11: when import runs twice in a row for a stream with the latest log
\* unchanged, the second call returns an inserted count of 0 and leaves the
\* store as the first call left it, also when the log has repeated rows.
C11_ImportIdempotent ==
    [][ ( /\ Imported
          /\ out'.op = "import" /\ out'.stream = out.stream
          /\ files' = files ) =>
            /\ store' = store
            /\ out'.code = 200 => out'.inserted = 0 ]_vars

C11_Witness ==
    /\ Imported /\ ImportLooped
    /\ out.inserted = 0
    /\ Len(RowsRead) = 2 /\ RowsRead[1] = RowsRead[2]
    /\ out.pre = store[out.coll] /\ Len(out.pre) = 1

\* C12: the key of import's duplicate check is (stream, timestamp, author,
\* text) without the super chat: of two rows of a log that differ only in the
\* super chat amount, import into a store holding neither inserts one record,
\* that of the first row, and a collection import fills holds one record per
\* key.
C12_KeyExcludesSuperChat ==
    /\ \A c \in CollNames : Len(c) = 3 =>
          \A i, j \in 1..Len(store[c]) :
              NaturalKey(store[c][i]) = NaturalKey(store[c][j]) => i = j
    /\ (Imported /\ ImportLooped) =>
          \A i, j \in 1..Len(RowsRead) :
              ( /\ i < j
                /\ RowKey(out.stream, RowsRead[i]) = RowKey(out.stream, RowsRead[j])
                /\ RowsRead[i][4] # RowsRead[j][4]
                /\ RowKey(out.stream, RowsRead[i]) \notin RowKeysBefore(i)
                /\ RowKey(out.stream, RowsRead[i]) \notin DocKeys(out.pre) ) =>
                  \E n \in 1..Len(store[out.coll]) :
                      /\ NaturalKey(store[out.coll][n]) = RowKey(out.stream, RowsRead[i])
                      /\ store[out.coll][n].superChat = RowsRead[i][4]
                      /\ \A m \in 1..Len(store[out.coll]) :
                            NaturalKey(store[out.coll][m]) =
                                RowKey(out.stream, RowsRead[i]) => m = n

C12_Witness ==
    /\ Imported /\ ImportLooped
    /\ Len(RowsRead) = 2
    /\ RowKey(out.stream, RowsRead[1]) = RowKey(out.stream, RowsRead[2])
    /\ RowsRead[1][4] # RowsRead[2][4]
    /\ out.pre = <<>>
    /\ out.inserted = 1
    /\ Len(store[out.coll]) = 1
    /\ store[out.coll][1].superChat = RowsRead[1][4]

\* C13: the count a successful import returns is the number of records it
\* inserted, which is the number of distinct keys among the data rows that
\* had no record in the store before; afterwards every data row's key has a
\* record, and the records that were there before are still there, unchanged.
C13_CountIsNewKeys ==
    Imported =>
        IF ImportLooped
        THEN /\ IsPrefix(out.pre, store[out.coll])
             /\ out.inserted = Len(store[out.coll]) - Len(out.pre)
             /\ out.inserted =
                    Cardinality(RowKeysBefore(Len(RowsRead) + 1) \ DocKeys(out.pre))
             /\ RowKeysBefore(Len(RowsRead) + 1) \subseteq DocKeys(store[out.coll])
        ELSE RowsRead = <<>> /\ out.inserted = 0

C13_Witness ==
    /\ Imported /\ ImportLooped
    /\ out.pre # <<>>
    /\ out.inserted = 1
    /\ RowKeysBefore(Len(RowsRead) + 1) \cap DocKeys(out.pre) # {}
    /\ Len(store[out.coll]) = 2

\* C14: with no log of the stream in the directory, import answers 404,
\* addresses no collection and leaves the store as it was.
C14_NoLogNotFound ==
    [][ ( /\ out'.op = "import"
          /\ MatchingFiles(files, out'.stream) = {} ) =>
            /\ out'.code = 404
            /\ out'.coll = <<>>
            /\ store' = store
            /\ collection_datetimes' = collection_datetimes ]_vars

C14_Witness ==
    /\ out.op = "import" /\ out.code = 404
    /\ MatchingFiles(files, out.stream) = {}
    /\ files # {}

\* C15: when the store raises at row k, import ends in an error without a
\* count, the records inserted for the rows before k stay in the store, and
\* nothing is inserted for row k or a row after it.
C15_NoRollback ==
    (ImportLooped /\ out.input > 0) =>
        /\ out.code = 500 /\ out.inserted = None
        /\ IsPrefix(out.pre, store[out.coll])
        /\ RowKeysBefore(out.input) \subseteq DocKeys(store[out.coll])
        /\ DocKeys(store[out.coll]) \ DocKeys(out.pre) \subseteq RowKeysBefore(out.input)
        /\ Len(store[out.coll]) - Len(out.pre) =
               Cardinality(RowKeysBefore(out.input) \ DocKeys(out.pre))

C15_Witness ==
    /\ ImportLooped /\ out.input = 2
    /\ Len(RowsRead) = 2
    /\ RowKey(out.stream, RowsRead[1]) # RowKey(out.stream, RowsRead[2])
    /\ out.pre = <<>>
    /\ Len(store[out.coll]) = 1

C15_WitnessFirstRow ==
    /\ ImportLooped /\ out.input = 1
    /\ Len(RowsRead) = 2
    /\ store[out.coll] = <<>>

\* The file of a set that was created last.
LastCreated(fs) == CHOOSE f \in fs : \A g \in fs : g.birth <= f.birth

\* C16: the latest log of a stream is, among the files of the directory
\* named for the stream, the one created last, and null when there is none.
C16_LatestByCreation ==
    out.op \in {"import", "fetch"} =>
        out.file = IF MatchingFiles(files, out.stream) = {} THEN NullName
                   ELSE FileName(LastCreated(MatchingFiles(files, out.stream)))

\* C17: fetch returns one record for each data row of the latest log, in
\* file order; a row whose timestamp text does not parse gets the derived
\* timestamp 0 and the rows after it are returned all the same.
C17_FetchKeepsGoing ==
    (out.op = "fetch" /\ out.code = 200) =>
        /\ Len(out.messages) = Len(RowsRead)
        /\ \A i \in 1..Len(RowsRead) :
              /\ out.messages[i].datetime = RowsRead[i][1]
              /\ out.messages[i].author = RowsRead[i][2]
              /\ out.messages[i].message = RowsRead[i][3]
              /\ out.messages[i].superChat = RowsRead[i][4]
              /\ out.messages[i].video_id = out.stream
              /\ out.messages[i].timestamp =
                     IF RowsRead[i][1] \in DOMAIN EpochSeconds
                     THEN Millis(EpochSeconds[RowsRead[i][1]])
                     ELSE Millis(0)

C17_Witness ==
    /\ out.op = "fetch" /\ out.code = 200
    /\ Len(out.messages) = 2
    /\ out.messages[1].timestamp = Millis(0)
    /\ out.messages[2].timestamp = [high |-> 1672567, low |-> 200000]

\* The last operation was a write of a message by a loop of the given kind;
\* what it left in its log and in its collection.
Wrote(kind) == out.op = kind
RowAppended == Len(FileNamed(files, out.file).rows) = out.input.rows + 1
RowUntouched == Len(FileNamed(files, out.file).rows) = out.input.rows
DocInserted == Len(store[out.coll]) = Len(out.pre) + 1
DocUntouched == store[out.coll] = out.pre
StillWriting == [file |-> out.file, kind |-> out.op] \in writers

\* C18: one write_message of MessageWriterService attempts the append to
\* the log and the insert into the store once each and independently: the
\* row is in the log exactly when the append worked, the record is in the
\* store exactly when the insert worked, and the call raises in no case.
C18_SinksIndependent ==
    Wrote("service") =>
        /\ ~out.input.raised
        /\ IF out.input.csvOk THEN RowAppended ELSE RowUntouched
        /\ IF out.input.dbOk THEN DocInserted ELSE DocUntouched
        /\ StillWriting

C18_Witness ==
    /\ Wrote("service")
    /\ ~out.input.csvOk /\ out.input.dbOk
    /\ RowUntouched /\ DocInserted

C18_WitnessStoreFails ==
    /\ Wrote("service")
    /\ out.input.csvOk /\ ~out.input.dbOk
    /\ RowAppended /\ DocUntouched

\* C19: in the worker's loop every event is written to the log and to the
\* store independently: a failed write to one target stops neither the write
\* of that message to the other target nor the writing of later events.
C19_LoopSinksIndependent ==
    Wrote("collector") =>
        /\ IF out.input.csvOk THEN RowAppended ELSE RowUntouched
        /\ IF out.input.dbOk THEN DocInserted ELSE DocUntouched
        /\ StillWriting

\* C20: POST /stop_chat/{stream} answers 404 when the stream is untracked
\* and 500 when stopping fails; neither failure is answered with 200.
C20_StopFailureStatus ==
    ret.op = "stop_chat" =>
        /\ ~HasKey(ret.pre, ret.stream) => ret.code = 404
        /\ (HasKey(ret.pre, ret.stream) /\ ret.path[1] # "stopped") =>
               ret.code = 500
        /\ ret.code = 200 => ret.status = "stopped"

\* ------------------------------------------ claims: the whole system
\* C21: the worker's write path and the query, analyze and import operations
\* address the same collection, messages_{s}: what the worker stored for s is
\* among the records the messages query returns for s.
C21_SameCollection ==
    /\ (out.op \in {"messages", "analyze"} \/ ImportLooped) =>
           out.coll = WorkerCollection(out.stream)
    /\ out.op = "messages" =>
           \A i \in 1..Len(store[WorkerCollection(out.stream)]) :
               \E j \in 1..Len(out.messages) :
                   out.messages[j] = store[WorkerCollection(out.stream)][i]

\* C22: two invocations of the callback that are in progress at the same
\* time for the same log never interleave their writes: none writes an item
\* while another has written some of its items and not yet all.
C22_CallbackExclusive ==
    [][ \A t \in Threads :
          ( /\ call'[t].op = "chat_callback"
            /\ call'[t].waited >
                   (IF call[t].op = "chat_callback" THEN call[t].waited ELSE 0) )
          => ~ \E u \in Threads \ {t} :
                   /\ call[u].op = "chat_callback"
                   /\ call[u].waited >= 1
                   /\ call[u].waited < Len(call[u].path) ]_vars

\* C23: a log has one header row followed by its data rows and is never
\* rewritten: whatever happens, also the start of another run for the same
\* stream in the same clock second, every row of a log stays where it is.
C23_LogNeverRewritten ==
    [][ /\ \A f \in files : \E g \in files' :
              FileName(g) = FileName(f) /\ IsPrefix(f.rows, g.rows)
        /\ \A g \in files' :
              /\ g.rows[1] = Header
              /\ \A i \in 2..Len(g.rows) : g.rows[i] # Header ]_vars

\* The rearrangements of a sequence.
Perms(n) == {p \in [1..n -> 1..n] : \A i, j \in 1..n : p[i] = p[j] => i = j}
Permuted(seq, p) == [i \in 1..Len(seq) |-> seq[p[i]]]

\* C24: import is order-independent per key: with the data rows of the log
\* in any other order, import into the same store returns the same count and
\* leaves records of the same keys.
C24_OrderIndependent ==
    (Imported /\ ImportLooped) =>
        \A p \in Perms(Len(RowsRead)) :
            LET r == ImportLoop(out.pre,
                                Permuted(ImportMessages(
                                    FileNamed(files, out.file).rows, out.stream), p),
                                1, 0)
            IN /\ r.inserted = out.inserted
               /\ DocKeys(r.docs) = DocKeys(store[out.coll])

C24_Witness ==
    /\ Imported /\ ImportLooped
    /\ Len(RowsRead) = 2
    /\ RowKey(out.stream, RowsRead[1]) # RowKey(out.stream, RowsRead[2])
    /\ Len(out.pre) = 1
    /\ out.inserted = 1

\* C25: when a stop and a start for the same stream interleave, stop removes
\* only the entry of the process it signalled: an entry that a start recorded
\* while stop was waiting is in the table, with the new pid, after stop
\* returns.
C25_NoLostUpdate ==
    [][ \A t \in Threads :
          ( /\ call[t].op = "stop" /\ call'[t].pc = "idle"
            /\ HasKey(collector_processes, call[t].stream)
            /\ collector_processes[call[t].stream] # call[t].pid )
          => collector_processes'[call[t].stream] =
                 collector_processes[call[t].stream] ]_vars

\* C26: after any sequence of start and stop calls (no handler is running),
\* every worker that start spawned and that is still running has its pid in
\* the table under its stream: no running worker is left untracked.
C26_NoUntrackedWorker ==
    (\A t \in Threads : call[t].pc = "idle")
    => \A p \in Pids :
           Running(p) => collector_processes[proc[p].stream] = p

\* C27 as stated: every stream in the table has a worker that is still
\* running; the entry of a worker that exited on its own does not stay.
C27_EntriesAreRunning ==
    \A s \in Streams :
        HasKey(collector_processes, s) => Running(collector_processes[s])

\* C27 as amended: the entry of a worker that has exited stays in the table,
\* and is part of every list() result taken meanwhile, until a stop for its
\* stream ends with stopped, killed or not-found, or a start for its stream
\* overwrites it.
C27_EntryStaysUntilStop ==
    [][ \A s \in Streams :
          LET p == collector_processes[s] IN
          (p # NoPid /\ ~Running(p)) =>
            /\ (\E t \in Threads : get_running_processes(t)) =>
                   heap'[snapRef'][s] = p
            /\ collector_processes'[s] # p =>
                   \/ /\ ret' # ret
                      /\ ret'.op = "stop" /\ ret'.stream = s
                      /\ ret'.status \in {"stopped", "killed"}
                         \/ ret'.code = 404
                   \/ \E t \in Threads :
                          /\ call[t].pc = "idle"
                          /\ call'[t].op = "start" /\ call'[t].stream = s
                          /\ collector_processes'[s] = call'[t].pid ]_vars

C27_Witness ==
    /\ ret.op = "list" /\ snapRef # NoRef
    /\ \E s \in Streams :
           /\ HasKey(ret.pre, s)
           /\ proc[ret.pre[s]].state = "exited"
           /\ heap[snapRef][s] = ret.pre[s]
           /\ collector_processes[s] = ret.pre[s]

\* C28: stop removes the stream's entry only on the outcomes stopped, killed
\* and process-absent; on every server-error outcome the entry is retained
\* with its pid, also when the worker is still alive at the end of the wait
\* after the kill, and when an unexpected error is raised at the graceful
\* signal or in the first wait, in which case no kill signal is sent.
C28_ErrorKeepsEntry ==
    (ret.op = "stop" /\ Tracked) =>
        /\ EntryRemoved <=>
               \/ ret.status \in {"stopped", "killed"}
               \/ ret.code = 404
        /\ ret.code = 500 =>
               /\ EntryKept
               /\ ret.path[Len(ret.path)] \in {"error", "timeout"}
               /\ Len(ret.path) <= 2 => ~SentTo(ret.pid, "SIGKILL")

C28_Witness ==
    /\ StopReturned(<<"ok", "timeout", "ok", "timeout">>)
    /\ Tracked /\ Running(ret.pid)
    /\ ret.code = 500 /\ EntryKept

C28_WitnessFirstWait ==
    /\ StopReturned(<<"ok", "error">>)
    /\ Tracked /\ ret.code = 500 /\ EntryKept
    /\ ~SentTo(ret.pid, "SIGKILL")

C28_WitnessSignal ==
    /\ StopReturned(<<"error">>)
    /\ Tracked /\ ret.code = 500 /\ EntryKept
    /\ signals = <<>>

\* The signals of one kind sent since the running (or last) handler began.
Sent(sig) == Cardinality({i \in 1..Len(signals) : signals[i].sig = sig})

\* A stop call is within its bounds: the first wait has lasted at most 5
\* units and the second at most 2, each step was taken at most once, at most
\* one graceful and one kill signal were sent, and a call that returned has
\* one of the four outcomes.
StopBounded ==
    /\ \A t \in Threads :
           /\ call[t].pc = "wait1" => call[t].waited <= GracefulWait
           /\ call[t].pc = "wait2" => call[t].waited <= KillWait
           /\ call[t].op = "stop" => Len(call[t].path) <= 3
    /\ Sent("SIGINT") <= 1 /\ Sent("SIGKILL") <= 1
    /\ ret.op = "stop" =>
           /\ Len(ret.path) <= 4
           /\ <<ret.code, ret.status>> \in
                  {<<200, "stopped">>, <<200, "killed">>,
                   <<404, "error">>, <<500, "error">>}

\* C29: every stop call terminates: it waits at most once for up to 5 units
\* and at most once more for up to 2 units, sends at most one graceful and at
\* most one kill signal, and ends in exactly one of stopped, killed,
\* not-found or server error, whatever the worker does.
C29_StopTerminates ==
    /\ []StopBounded
    /\ \A t \in Threads :
           (call[t].op = "stop" /\ call[t].pc # "idle")
               ~> (call[t].pc = "idle" /\ ret.op = "stop")

\* A worker that ignored both signals: stop returned after both waits ran
\* out, and the worker is running.
C29_Witness ==
    /\ StopReturned(<<"ok", "timeout", "ok", "timeout">>)
    /\ Running(ret.pid)
    /\ SentTo(ret.pid, "SIGINT") /\ SentTo(ret.pid, "SIGKILL")
    /\ ret.code = 500

\* The number of records with natural key k in all collections of the store.
RECURSIVE RecordsWithKey(_, _, _)
RecordsWithKey(st, k, names) ==
    IF names = {} THEN 0
    ELSE LET n == CHOOSE x \in names : TRUE
         IN Cardinality({i \in 1..Len(st[n]) : NaturalKey(st[n][i]) = k})
            + RecordsWithKey(st, k, names \ {n})

\* The data rows of the log named `name` that have the natural key k.
RowsWithKey(name, k) ==
    LET rows == FileNamed(files, name).rows
    IN {i \in 2..Len(rows) : RowKey(name[1], rows[i]) = k}

\* C30: when import for a stream ran while the stream's worker was between
\* appending a message's row and inserting the message, then once the worker
\* has inserted it the store holds exactly one record with the message's
\* natural key (the message being the only one with that key in the log).
C30_NoRaceDuplicate ==
    [][ \A w \in writers :
          LET s == w.file[1]
              k == NaturalKey(DocOf(w.message, s))
          IN ( /\ w.kind = "appended"
               /\ CollectorInserts(w)
               /\ out.op = "import" /\ out.stream = s
               /\ out.file = w.file /\ out.code = 200
               /\ Cardinality(RowsWithKey(w.file, k)) = 1 )
             => RecordsWithKey(store', k, CollNames) = 1 ]_vars

====
